---- MODULE Spec2Model ----
(***************************************************************************)
(* Daily price consolidation of btc_oro: the MongoDB document of a day     *)
(* (one per date, per asset an array of hourly entries), the repository's  *)
(* per-entry upsert ($pull of the hour, then $push of the entry, two       *)
(* separate update_one calls), and the fetch-and-store cycle of the        *)
(* service that files the fetched prices under an hour and forwards the    *)
(* document that it reads back.                                            *)
(*                                                                         *)
(* Time is counted in whole hours of the Argentina timezone, hour 0 being  *)
(* 2025-10-24 00:00 ART; the clock is sampled at the instants of Instants. *)
(***************************************************************************)
EXTENDS Integers, Sequences, FiniteSets, TLC

VARIABLES
    store,   \* the collection: date key -> document, or NoDoc
    now,     \* the wall clock (datetime.now / datetime.utcnow), in hours
    hist,    \* history of the completed per-entry upserts of the sequential callers
    inv,     \* the invocations in flight: process -> its local variables
    cfg,     \* what _initialize_dependencies built: a repository? a Telegram client?
    rec,     \* a DailyPriceRecord held in memory by a caller of its methods
    loaded,  \* what get_daily_prices answered its direct caller last
    srv      \* the deployment: its API key, its handler, the requests it received

vars == <<store, now, hist, inv, cfg, rec, loaded, srv>>

-----------------------------------------------------------------------------
(* Bounds and input domains                                                *)

\* number of per-entry upserts a sequential run performs
MaxOps == 3

\* number of method calls made on a record held in memory
MaxCalls == 3

\* the largest retry_count get_gold_price is called with
MaxRetry == 2

\* hours of a day: PriceEntry.hour is 0..23
HoursPerDay == 24

Assets == {"BTC", "XAU"}

Procs == {"p1", "p2"}

\* the instants at which the clock is sampled: 10:00, 17:00 and 00:00 of the
\* next day
Instants == {10, 17, 24}

\* the hours the repository's direct callers file entries under
TestHours == {10, 17}

Dates == {"2025-10-24", "2025-10-25"}

\* the date the repository's direct callers write
RepoDates == Dates

-----------------------------------------------------------------------------
(* Time                                                                    *)

\* now_art.hour
ArtHour(t) == t % HoursPerDay

\* now_art.strftime('%Y-%m-%d')
ArtDate(t) == IF t \div HoursPerDay = 0 THEN "2025-10-24" ELSE "2025-10-25"

-----------------------------------------------------------------------------
(* Entries, records and documents                                          *)

\* the source tag each fetcher writes
SourceOf(asset) == IF asset = "BTC" THEN "coingecko" ELSE "goldapi"

\* PriceEntry(hour=..., price_usd=..., timestamp_utc=..., source_api=...,
\* collection_time_art=...): the two times are datetimes
PriceEntry(hour, price, ts, source, ct) ==
    [hour |-> hour, price_usd |-> price, timestamp_utc |-> ts,
     source_api |-> source, collection_time_art |-> ct]

\* a datetime as model_dump(mode='json') writes it: an ISO 8601 string
IsoFormat(t) == [iso |-> t]

\* the datetime pydantic reads from an ISO 8601 string
ParseIso(str) == str.iso

\* a PriceEntry as model_dump(mode='json') writes it
DumpEntry(e) ==
    [e EXCEPT !.timestamp_utc = IsoFormat(@), !.collection_time_art = IsoFormat(@)]

\* the PriceEntry pydantic reads from a stored entry
ParseEntry(d) ==
    [d EXCEPT !.timestamp_utc = ParseIso(@), !.collection_time_art = ParseIso(@)]

\* record.model_dump(mode='json') of a DailyPriceRecord whose prices are the
\* (asset, entries) pairs of the dict, in dict order
ModelDump(record) ==
    [date |-> record.date, date_art |-> IsoFormat(record.date_art),
     prices |-> [i \in 1..Len(record.prices) |->
                   [asset |-> record.prices[i].asset,
                    entries |-> [k \in 1..Len(record.prices[i].entries) |->
                                   DumpEntry(record.prices[i].entries[k])]]]]

\* no document for the date (find_one returns None)
NoDoc == [present |-> FALSE]

\* the document an upsert inserts: the query's date, the $set fields and the
\* $setOnInsert field; $pull of a missing array adds nothing. The document is
\* the one update_one and find_one match for the date; twins counts the other
\* documents of the collection that hold the same date
NewDoc(date, dateArt, t) ==
    [present |-> TRUE, date |-> date, date_art |-> dateArt,
     prices |-> [a \in Assets |-> << >>],
     updated_at |-> t, created_at |-> t, twins |-> 0]

\* the hours of a list of entries, in list order
HoursOf(entries) == [i \in 1..Len(entries) |-> entries[i].hour]

\* the entries of a list, as a set
EntrySet(entries) == {entries[i] : i \in 1..Len(entries)}

\* how many entries of the list are filed under the hour
CountHour(entries, hour) == Cardinality({i \in 1..Len(entries) : entries[i].hour = hour})

\* prices.<asset> of the date's document; empty when there is no document
ListOf(st, date, asset) ==
    IF st[date].present THEN st[date].prices[asset] ELSE << >>

\* the dict find_one returns, after result.pop("_id")
Document(doc) ==
    [date |-> doc.date, date_art |-> doc.date_art, prices |-> doc.prices,
     updated_at |-> doc.updated_at, created_at |-> doc.created_at]

\* a get_daily_prices that lets the exception of find_one through
GetDailyPricesRaising(st, date, answered) ==
    [raised |-> ~answered,
     value |-> IF answered /\ st[date].present THEN <<Document(st[date])>> ELSE << >>]

\* get_daily_prices(date): the document find_one returns, without its _id;
\* None when there is none or when find_one raises (answered = FALSE)
GetDailyPrices(st, date, answered) ==
    [raised |-> FALSE,
     value |-> IF answered /\ st[date].present THEN <<Document(st[date])>> ELSE << >>]

-----------------------------------------------------------------------------
(* The store's update operations                                           *)

\* a $pull that takes nothing out
PullNothing(entries, hour) == entries

\* a $pull that empties the array
PullAll(entries, hour) == << >>

\* $pull {prices.<asset>: {hour: hour}}: every element whose hour matches goes
PullHour(entries, hour) == SelectSeq(entries, LAMBDA e : e.hour # hour)

\* a write of the array that holds the entry alone
PushReplace(entries, entry) == <<entry>>

\* $push {prices.<asset>: entry}: the entry goes to the end of the array
PushEntry(entries, entry) == Append(entries, entry)

\* update_one({date}, {$pull, $set: {date, date_art, updated_at},
\*             $setOnInsert: {created_at}}, upsert=True) of save_price_record
PullUpdate(st, date, dateArt, asset, hour, t) ==
    IF st[date].present
    THEN [st EXCEPT ![date].prices[asset] = PullHour(@, hour),
                    ![date].date_art = {dateArt},
                    ![date].updated_at = t]
    ELSE [st EXCEPT ![date] = NewDoc(date, {dateArt}, t)]

\* an update_one that stamps created_at on every write
PullUpdatePlainRestamp(st, date, asset, hour, t) ==
    IF st[date].present
    THEN [st EXCEPT ![date].prices[asset] = PullHour(@, hour),
                    ![date].updated_at = t,
                    ![date].created_at = t]
    ELSE [st EXCEPT ![date] = NewDoc(date, {}, t)]

\* the same update_one of upsert_daily_prices, which sets no date_art
PullUpdatePlain(st, date, asset, hour, t) ==
    IF st[date].present
    THEN [st EXCEPT ![date].prices[asset] = PullHour(@, hour),
                    ![date].updated_at = t]
    ELSE [st EXCEPT ![date] = NewDoc(date, {}, t)]

\* update_one({date}, {$push, $set: {updated_at}}): no upsert, so nothing
\* happens when the date has no document
PushUpdate(st, date, asset, entry, t) ==
    IF st[date].present
    THEN [st EXCEPT ![date].prices[asset] = PushEntry(@, entry),
                    ![date].updated_at = t]
    ELSE st

-----------------------------------------------------------------------------
(* The repository, called by one caller at a time                          *)

\* one line of the history: the upsert of one entry, with the asset's array
\* before its $pull and after its $push
HistLine(date, asset, entry, before, after) ==
    [date |-> date, asset |-> asset, entry |-> entry,
     before |-> before, after |-> after]

\* the body of the loops of save_price_record: $pull of the entry's hour,
\* then $push of the entry
SaveEntry(st, date, dateArt, asset, entry, t) ==
    PushUpdate(PullUpdate(st, date, dateArt, asset, entry.hour, t),
               date, asset, entry, t)

\* the two update_one calls of upsert_daily_prices
UpsertEntry(st, date, asset, hour, entry, t) ==
    PushUpdate(PullUpdatePlain(st, date, asset, hour, t), date, asset, entry, t)

\* record.prices as the loops of save_price_record walk it: the (asset, entry)
\* pairs in dict order, each asset's entries in list order
RECURSIVE ItemsOf(_)
ItemsOf(prices) ==
    IF prices = << >> THEN << >>
    ELSE [i \in 1..Len(Head(prices).entries) |->
             [asset |-> Head(prices).asset, entry |-> Head(prices).entries[i]]]
         \o ItemsOf(Tail(prices))

\* the store after the loops of save_price_record have run over the items
RECURSIVE SaveItems(_, _, _, _, _)
SaveItems(st, date, dateArt, items, t) ==
    IF items = << >> THEN st
    ELSE SaveItems(SaveEntry(st, date, dateArt, Head(items).asset, Head(items).entry, t),
                   date, dateArt, Tail(items), t)

\* the history lines of the same loops
RECURSIVE SaveLines(_, _, _, _, _)
SaveLines(st, date, dateArt, items, t) ==
    IF items = << >> THEN << >>
    ELSE LET a == Head(items).asset
             e == Head(items).entry
             st2 == SaveEntry(st, date, dateArt, a, e, t)
         IN  <<HistLine(date, a, e, ListOf(st, date, a), ListOf(st2, date, a))>>
             \o SaveLines(st2, date, dateArt, Tail(items), t)

\* the quotes a direct caller of the repository passes for an asset: a price
\* with the collection time of the run that read it
QuotePool(asset) ==
    IF asset = "BTC"
    THEN {[price |-> 43250, ct |-> 10], [price |-> 43400, ct |-> 17]}
    ELSE {[price |-> 2738, ct |-> 10], [price |-> 2750, ct |-> 17]}

\* the entries a direct caller of the repository passes for an asset; the
\* source's timestamp lags the collection by an hour
EntryPool(asset) ==
    {PriceEntry(h, q.price, q.ct - 1, SourceOf(asset), q.ct) :
        h \in TestHours, q \in QuotePool(asset)}

\* the price_entry_dict a direct caller of upsert_daily_prices passes
DictPool(asset) == {DumpEntry(e) : e \in EntryPool(asset)}

\* DailyPriceRecord as _build_daily_record makes it: one entry per fetched
\* asset, all under the same hour
RecordPool ==
    {[date |-> d, date_art |-> e.collection_time_art,
      prices |-> <<[asset |-> "BTC", entries |-> <<e>>]>>] :
        d \in RepoDates, e \in EntryPool("BTC")}
    \cup
    {[date |-> d, date_art |-> e.collection_time_art,
      prices |-> <<[asset |-> "XAU", entries |-> <<e>>]>>] :
        d \in RepoDates, e \in EntryPool("XAU")}
    \cup
    UNION {{[date |-> d, date_art |-> eb.collection_time_art,
             prices |-> <<[asset |-> "BTC", entries |-> <<eb>>],
                          [asset |-> "XAU", entries |-> <<ex>>]>>] :
               d \in RepoDates,
               ex \in {e \in EntryPool("XAU") :
                          /\ e.hour = eb.hour
                          /\ e.collection_time_art = eb.collection_time_art}} :
           eb \in EntryPool("BTC")}

\* upsert_daily_prices(date, asset, hour, price_entry_dict)
UpsertDailyPrices(date, asset, entry) ==
    /\ Len(hist) < MaxOps
    /\ store' = UpsertEntry(store, date, asset, entry.hour, entry, now)
    /\ hist' = Append(hist, HistLine(date, asset, entry, ListOf(store, date, asset),
                                     ListOf(store', date, asset)))
    /\ UNCHANGED <<now, inv, cfg, rec, loaded, srv>>

\* save_price_record(record)
SavePriceRecord(record) ==
    LET record_dict == ModelDump(record)
        items == ItemsOf(record_dict.prices)
    IN
    /\ Len(hist) + Len(items) <= MaxOps
    /\ store' = SaveItems(store, record.date, record_dict.date_art, items, now)
    /\ hist' = hist \o SaveLines(store, record.date, record_dict.date_art, items, now)
    /\ UNCHANGED <<now, inv, cfg, rec, loaded, srv>>

\* time passes
Tick ==
    /\ \E t \in Instants : t > now /\ now' = t
    /\ UNCHANGED <<store, hist, inv, cfg, rec, loaded, srv>>

IdleInv == [p \in Procs |-> [pc |-> "idle"]]

\* the HTTP server of main.py after run_server: API_KEY set, the dependencies
\* initialised, no request received
IdleServer ==
    [deploy |-> "server", key |-> "k1", ready |-> TRUE, by |-> {},
     reqs |-> [p \in Procs |-> << >>]]

\* DailyPriceRecord(date=..., date_art=...): prices is the empty dict; calls is
\* the history of the method calls made on the record
NewRecord == [prices |-> << >>, calls |-> << >>]

Init ==
    /\ store = [d \in Dates |-> NoDoc]
    /\ now \in Instants
    /\ hist = << >>
    /\ inv = IdleInv
    /\ cfg \in [repo : BOOLEAN, telegram : BOOLEAN]
    /\ rec = NewRecord
    /\ loaded = << >>
    /\ srv = IdleServer

\* the repository's direct callers start at 10:00
InitRepo == Init /\ now = 10 /\ cfg.repo /\ cfg.telegram

Next ==
    \/ \E d \in RepoDates, a \in Assets : \E e \in DictPool(a) : UpsertDailyPrices(d, a, e)
    \/ \E r \in RecordPool : SavePriceRecord(r)

Spec == InitRepo /\ [][Next]_vars

-----------------------------------------------------------------------------
(* DailyPriceRecord in memory: add_price, get_price and                    *)
(* get_all_prices_for_asset, called on a record that starts empty          *)

\* the hours the callers of the record's methods use
CallHours == {10, 15, 17}

\* the entries the callers of add_price pass for an asset
RecordEntries(asset) ==
    {PriceEntry(h, q.price, q.ct - 1, SourceOf(asset), q.ct) :
        h \in CallHours, q \in QuotePool(asset)}

\* the entry put into a list sorted by hour, behind the entries of its hour
RECURSIVE InsertByHour(_, _)
InsertByHour(sorted, e) ==
    IF sorted = << >> THEN <<e>>
    ELSE IF Head(sorted).hour <= e.hour
         THEN <<Head(sorted)>> \o InsertByHour(Tail(sorted), e)
         ELSE <<e>> \o sorted

\* list.sort(key=lambda e: e.hour): ascending by hour, entries of the same
\* hour keeping their order
RECURSIVE SortByHour(_)
SortByHour(entries) ==
    IF entries = << >> THEN << >>
    ELSE InsertByHour(SortByHour(SubSeq(entries, 1, Len(entries) - 1)),
                      entries[Len(entries)])

\* self.prices.get(asset_name, [])
PricesGet(prices, asset) == IF asset \in DOMAIN prices THEN prices[asset] ELSE << >>

\* an add_price that leaves the new entry alone in the asset's list
AddPriceReset(prices, asset, entry) ==
    [a \in DOMAIN prices \cup {asset} |-> IF a = asset THEN <<entry>> ELSE prices[a]]

\* an add_price that replaces the entry of the hour but does not sort
AddPriceAppend(prices, asset, entry) ==
    LET list == PricesGet(prices, asset)
        same == {i \in 1..Len(list) : list[i].hour = entry.hour}
        first == CHOOSE i \in same : \A k \in same : i <= k
        new == IF same # {} THEN [list EXCEPT ![first] = entry] ELSE Append(list, entry)
    IN  [a \in DOMAIN prices \cup {asset} |-> IF a = asset THEN new ELSE prices[a]]

\* an add_price that never replaces
AddPriceDuplicate(prices, asset, entry) ==
    LET list == PricesGet(prices, asset)
    IN  [a \in DOMAIN prices \cup {asset} |->
            IF a = asset THEN SortByHour(Append(list, entry)) ELSE prices[a]]

\* add_price(asset_name, price_entry): the first entry of the hour is
\* replaced where it is; when there is none the entry is appended and the list
\* is sorted by hour
AddPrice(prices, asset, entry) ==
    LET list == PricesGet(prices, asset)
        same == {i \in 1..Len(list) : list[i].hour = entry.hour}
        first == CHOOSE i \in same : \A k \in same : i <= k
        new == IF same # {} THEN [list EXCEPT ![first] = entry]
               ELSE SortByHour(Append(list, entry))
    IN  [a \in DOMAIN prices \cup {asset} |-> IF a = asset THEN new ELSE prices[a]]

\* a get_price that returns the asset's first entry, whatever its hour
GetPriceFirst(prices, asset, hour) ==
    IF PricesGet(prices, asset) = << >> THEN << >> ELSE <<PricesGet(prices, asset)[1]>>

\* get_price(asset_name, hour): the first entry of the hour, or None
GetPrice(prices, asset, hour) ==
    LET list == PricesGet(prices, asset)
        same == {i \in 1..Len(list) : list[i].hour = hour}
    IN  IF same = {} THEN << >>
        ELSE <<list[CHOOSE i \in same : \A k \in same : i <= k]>>

\* get_all_prices_for_asset(asset_name)
GetAllPricesForAsset(prices, asset) == PricesGet(prices, asset)

\* one line of the record's history: the call, what it returned, and the
\* prices before and after
CallLine(op, asset, arg, result, before, after) ==
    [op |-> op, asset |-> asset, arg |-> arg, result |-> result,
     before |-> before, after |-> after]

\* record.add_price(asset, entry)
AddPriceCall(asset, entry) ==
    LET after == AddPrice(rec.prices, asset, entry)
    IN
    /\ Len(rec.calls) < MaxCalls
    /\ rec' = [prices |-> after,
               calls |-> Append(rec.calls, CallLine("add_price", asset, <<entry>>, << >>,
                                                    rec.prices, after))]
    /\ UNCHANGED <<store, now, hist, inv, cfg, loaded, srv>>

\* record.get_price(asset, hour)
GetPriceCall(asset, hour) ==
    /\ Len(rec.calls) < MaxCalls
    /\ rec' = [rec EXCEPT !.calls =
                  Append(@, CallLine("get_price", asset, <<hour>>,
                                     GetPrice(rec.prices, asset, hour),
                                     rec.prices, rec.prices))]
    /\ UNCHANGED <<store, now, hist, inv, cfg, loaded, srv>>

\* record.get_all_prices_for_asset(asset)
GetAllCall(asset) ==
    /\ Len(rec.calls) < MaxCalls
    /\ rec' = [rec EXCEPT !.calls =
                  Append(@, CallLine("get_all_prices_for_asset", asset, << >>,
                                     GetAllPricesForAsset(rec.prices, asset),
                                     rec.prices, rec.prices))]
    /\ UNCHANGED <<store, now, hist, inv, cfg, loaded, srv>>

NextRecord ==
    \/ \E a \in Assets : \E e \in RecordEntries(a) : AddPriceCall(a, e)
    \/ \E a \in Assets, h \in CallHours : GetPriceCall(a, h)
    \/ \E a \in Assets : GetAllCall(a)

SpecRecord == InitRepo /\ [][NextRecord]_vars

\* the lists DailyPriceRecord(date=..., date_art=..., prices={...}) is handed
\* for bitcoin: the constructor takes them as they are, in any order and with
\* any hour twice
BuiltLists ==
    LET e(h, price) == PriceEntry(h, price, h - 1, SourceOf("BTC"), h)
    IN  {<< >>,
         <<e(10, 43250), e(17, 43400)>>,
         <<e(17, 43400), e(10, 43250)>>,
         <<e(17, 43400), e(10, 43250), e(15, 43300)>>,
         <<e(10, 43250), e(10, 43260)>>}

\* the records the constructor builds from BuiltLists, with one gold entry
BuiltRecords ==
    {[prices |-> [a \in Assets |->
                    IF a = "BTC" THEN list
                    ELSE <<PriceEntry(10, 2738, 9, SourceOf("XAU"), 10)>>],
      calls |-> << >>] : list \in BuiltLists}

\* add_price called on records that came from the constructor
NextBuilt ==
    \E a \in Assets : \E e \in RecordEntries(a) : AddPriceCall(a, e)

InitBuilt ==
    /\ store = [d \in Dates |-> NoDoc]
    /\ now = 10
    /\ hist = << >>
    /\ inv = IdleInv
    /\ cfg = [repo |-> TRUE, telegram |-> TRUE]
    /\ rec \in BuiltRecords
    /\ loaded = << >>
    /\ srv = IdleServer

SpecBuilt == InitBuilt /\ [][NextBuilt]_vars

\* a direct caller of get_daily_prices(date); the answer is kept with the
\* number of upserts that had completed when it was given
Load(date, answered) ==
    LET got == GetDailyPrices(store, date, answered)
    IN
    /\ loaded' = <<[date |-> date, answered |-> answered, at |-> Len(hist),
                    raised |-> got.raised, value |-> got.value]>>
    /\ UNCHANGED <<store, now, hist, inv, cfg, rec, srv>>

\* a direct caller that upserts bitcoin entries and loads documents
NextLoad ==
    \/ \E d \in RepoDates : \E e \in DictPool("BTC") : UpsertDailyPrices(d, "BTC", e)
    \/ \E d \in RepoDates, answered \in BOOLEAN : Load(d, answered)

SpecLoad == InitRepo /\ [][NextLoad]_vars

\* the date the callers of the day write as the hours pass
StampDates == {d \in RepoDates : d = ArtDate(10)}

\* direct callers that write the day's document as the hours pass: bitcoin
\* entries through upsert_daily_prices, gold records through save_price_record
NextStamp ==
    \/ Tick
    \/ \E d \in StampDates : \E e \in DictPool("BTC") : UpsertDailyPrices(d, "BTC", e)
    \/ \E r \in RecordPool :
          /\ r.date \in StampDates
          /\ Len(r.prices) = 1 /\ r.prices[1].asset = "XAU"
          /\ SavePriceRecord(r)

SpecStamp == InitRepo /\ [][NextStamp]_vars

-----------------------------------------------------------------------------
(* The repository, called by concurrent invocations: each update_one is    *)
(* one step of the store                                                   *)

\* the invocation is between the start and the end of save_price_record
Saving(p) == inv[p].pc \in {"pull", "push"}

\* the item the loops of save_price_record are at
Item(p) == inv[p].items[inv[p].idx]

\* a direct caller enters save_price_record(record)
StartSave(p, record) ==
    /\ inv[p].pc = "idle"
    /\ inv' = [inv EXCEPT ![p] =
                  [pc |-> "pull", record |-> ModelDump(record),
                   items |-> ItemsOf(ModelDump(record).prices), idx |-> 1,
                   overlap |-> \E q \in Procs \ {p} : Saving(q),
                   log |-> << >>, found |-> FALSE, raced |-> FALSE]]
    /\ UNCHANGED <<store, now, hist, cfg, rec, loaded, srv>>

\* OPERACION 1 of save_price_record: the $pull update_one, with upsert
PullStep(p) ==
    /\ inv[p].pc = "pull"
    /\ store' = PullUpdate(store, inv[p].record.date, inv[p].record.date_art,
                           Item(p).asset, Item(p).entry.hour, now)
    /\ inv' = [inv EXCEPT ![p].pc = "push"]
    /\ UNCHANGED <<now, hist, cfg, rec, loaded, srv>>

\* OPERACION 2 of save_price_record: the $push update_one; the loops go on to
\* the next item, and the call returns True after the last
PushStep(p) ==
    /\ inv[p].pc = "push"
    /\ store' = PushUpdate(store, inv[p].record.date, Item(p).asset, Item(p).entry, now)
    /\ inv' = [inv EXCEPT ![p].idx = @ + 1,
                          ![p].pc = IF inv[p].idx < Len(inv[p].items)
                                    THEN "pull" ELSE "saved",
                          ![p].log = IF inv[p].idx < Len(inv[p].items)
                                     THEN @ ELSE Append(@, "saved")]
    /\ UNCHANGED <<now, hist, cfg, rec, loaded, srv>>

\* the $pull update_one raises: the except of the loop body logs the error
\* and the loops go on to the next item; nothing was written for this one
PullRaises(p) ==
    /\ inv[p].pc = "pull"
    /\ inv' = [inv EXCEPT ![p].idx = @ + 1,
                          ![p].pc = IF inv[p].idx < Len(inv[p].items)
                                    THEN "pull" ELSE "saved",
                          ![p].log = IF inv[p].idx < Len(inv[p].items)
                                     THEN Append(@, "upsert_error")
                                     ELSE @ \o <<"upsert_error", "saved">>]
    /\ UNCHANGED <<store, now, hist, cfg, rec, loaded, srv>>

\* the $push update_one raises, after the $pull went through: the same except
PushRaises(p) ==
    /\ inv[p].pc = "push"
    /\ inv' = [inv EXCEPT ![p].idx = @ + 1,
                          ![p].pc = IF inv[p].idx < Len(inv[p].items)
                                    THEN "pull" ELSE "saved",
                          ![p].log = IF inv[p].idx < Len(inv[p].items)
                                     THEN Append(@, "upsert_error")
                                     ELSE @ \o <<"upsert_error", "saved">>]
    /\ UNCHANGED <<store, now, hist, cfg, rec, loaded, srv>>

\* callers of save_price_record on a store whose update_one may raise
NextWrite ==
    \/ \E p \in Procs, r \in RecordPool : StartSave(p, r)
    \/ \E p \in Procs : PullStep(p)
    \/ \E p \in Procs : PushStep(p)
    \/ \E p \in Procs : PullRaises(p)
    \/ \E p \in Procs : PushRaises(p)

NextConc ==
    \/ Tick
    \/ \E p \in Procs, r \in RecordPool : StartSave(p, r)
    \/ \E p \in Procs : PullStep(p)
    \/ \E p \in Procs : PushStep(p)

\* concurrent callers of a repository that was built
InitConc == Init /\ cfg.repo /\ cfg.telegram

SpecConc == InitConc /\ [][NextConc]_vars

SpecWrite == InitRepo /\ [][NextWrite]_vars

\* callers of save_price_record and readers of the day's document, side by
\* side: the service's read-back and any other reader of the collection
NextRead ==
    \/ \E p \in Procs, r \in RecordPool : StartSave(p, r)
    \/ \E p \in Procs : PullStep(p)
    \/ \E p \in Procs : PushStep(p)
    \/ \E d \in RepoDates : Load(d, TRUE)

SpecRead == InitRepo /\ [][NextRead]_vars

\* an index that lets every insert through
InsertAlways(present) == TRUE

\* create_index("date", unique=True): an insert goes through only when no
\* document of the collection holds the date
InsertAllowed(present) == ~present

\* the upsert of OPERACION 1 inside the server, first half: the query for the
\* date finds a document to update, or none
MatchStep(p) ==
    /\ inv[p].pc = "pull"
    /\ inv' = [inv EXCEPT ![p].found = store[inv[p].record.date].present,
                          ![p].pc = "matched"]
    /\ UNCHANGED <<store, now, hist, cfg, rec, loaded, srv>>

\* second half: the document found is updated; when none was found one is
\* inserted, unless the index finds the date taken meanwhile - the server then
\* runs the operation again as an update (retried), or update_one raises
\* DuplicateKeyError and the loop goes on to the next entry
UpsertWrite(p, retried) ==
    LET date == inv[p].record.date
        taken == store[date].present
        updated == PullUpdate(store, date, inv[p].record.date_art,
                              Item(p).asset, Item(p).entry.hour, now)
        skipped == ~inv[p].found /\ ~InsertAllowed(taken) /\ ~retried
    IN
    /\ inv[p].pc = "matched"
    /\ store' = IF inv[p].found THEN updated
                ELSE IF InsertAllowed(taken)
                     THEN IF taken THEN [store EXCEPT ![date].twins = @ + 1]
                          ELSE updated
                     ELSE IF retried THEN updated ELSE store
    /\ inv' = [inv EXCEPT
          ![p].raced = @ \/ (~inv[p].found /\ taken),
          ![p].idx = IF skipped THEN @ + 1 ELSE @,
          ![p].pc = IF ~skipped THEN "push"
                    ELSE IF inv[p].idx < Len(inv[p].items) THEN "pull" ELSE "saved",
          ![p].log = IF skipped /\ inv[p].idx >= Len(inv[p].items)
                     THEN Append(@, "saved") ELSE @]
    /\ UNCHANGED <<now, hist, cfg, rec, loaded, srv>>

\* two invocations that save one-asset records of the day, the server's
\* upsert taken in its two halves
NextUpsert ==
    \/ \E p \in Procs, r \in RecordPool :
          /\ r.date \in StampDates /\ Len(r.prices) = 1
          /\ StartSave(p, r)
    \/ \E p \in Procs : MatchStep(p)
    \/ \E p \in Procs, retried \in BOOLEAN : UpsertWrite(p, retried)
    \/ \E p \in Procs : PushStep(p)

SpecUpsert == InitRepo /\ [][NextUpsert]_vars

-----------------------------------------------------------------------------
(* The fetch-and-store cycle: handle_trigger_fetch and                     *)
(* fetch_and_store_prices, one invocation per process                      *)

\* the values of the hour query parameter: absent, not an integer, or an integer
HourParams ==
    {[kind |-> "absent"], [kind |-> "text"]}
    \cup {[kind |-> "int", value |-> h] : h \in {10, 17, 24}}

\* what a fetch thread returns: a price, or None
Fetched(price) == [ok |-> TRUE, price |-> price]
FetchFailed == [ok |-> FALSE]

\* what the two fetch threads return, and the order in which as_completed
\* yields them: both sources quote the morning's or the afternoon's prices, in
\* either order of completion, or one of them fails, or both do
FetchResults ==
    {[order |-> <<"BTC", "XAU">>, BTC |-> Fetched(43250), XAU |-> Fetched(2738)],
     [order |-> <<"XAU", "BTC">>, BTC |-> Fetched(43250), XAU |-> Fetched(2738)],
     [order |-> <<"BTC", "XAU">>, BTC |-> Fetched(43400), XAU |-> Fetched(2750)],
     [order |-> <<"BTC", "XAU">>, BTC |-> Fetched(43250), XAU |-> FetchFailed],
     [order |-> <<"XAU", "BTC">>, BTC |-> FetchFailed, XAU |-> Fetched(2750)],
     [order |-> <<"BTC", "XAU">>, BTC |-> FetchFailed, XAU |-> FetchFailed]}

\* the dict a fetch returns
PriceInfo(asset, price, ts, nowArt) ==
    [asset |-> asset, price_usd |-> price, timestamp_utc |-> ts,
     source_api |-> SourceOf(asset), collection_time_art |-> nowArt]

\* a prices_data that holds every asset, fetched or not
PricesDataAll(res, ts, nowArt) ==
    [i \in 1..Len(res.order) |->
        PriceInfo(res.order[i], IF res[res.order[i]].ok THEN res[res.order[i]].price ELSE 0,
                  ts, nowArt)]

\* prices_data after the as_completed loop: the fetched assets in completion order
PricesData(res, ts, nowArt) ==
    LET info(a) == PriceInfo(a, res[a].price, ts, nowArt)
        got == SelectSeq(res.order, LAMBDA a : res[a].ok)
    IN  [i \in 1..Len(got) |-> info(got[i])]

\* errors that name every asset as soon as one fetch returned None
FetchErrorsAll(res) ==
    IF \E a \in Assets : ~res[a].ok THEN res.order ELSE << >>

\* errors that stop at the first asset that returned None
FetchErrorsOnce(res) ==
    LET failed == SelectSeq(res.order, LAMBDA a : ~res[a].ok)
    IN  IF failed = << >> THEN << >> ELSE <<failed[1]>>

\* errors after the as_completed loop: one line per asset that returned None
FetchErrors(res) == SelectSeq(res.order, LAMBDA a : ~res[a].ok)

\* _build_daily_record(date_str, target_hour, prices_data, collection_time_art)
BuildDailyRecord(dateStr, targetHour, pricesData, collectionTimeArt) ==
    [date |-> dateStr, date_art |-> collectionTimeArt,
     prices |-> [i \in 1..Len(pricesData) |->
                   [asset |-> pricesData[i].asset,
                    entries |-> <<PriceEntry(targetHour, pricesData[i].price_usd,
                                             pricesData[i].timestamp_utc,
                                             pricesData[i].source_api,
                                             pricesData[i].collection_time_art)>>]]]

\* the hour after the one the clock read
CurrentHourLate(targetHour, nowArt) == ArtHour(nowArt + 1)

\* the hour fetch_and_store_prices passes to _build_daily_record and to the
\* notification: current_hour = now_art.hour
CurrentHour(targetHour, nowArt) == ArtHour(nowArt)

\* DailyPriceRecord(**updated_record).model_dump(mode='json'): the fields of
\* the model, the document's other fields being ignored
DocPayload(doc) ==
    [date |-> doc.date,
     date_art |-> {IsoFormat(ParseIso(d)) : d \in doc.date_art},
     prices |-> [a \in Assets |->
                   [k \in 1..Len(doc.prices[a]) |-> DumpEntry(ParseEntry(doc.prices[a][k]))]]]

\* daily_record.model_dump(mode='json') of the record built in memory, in the
\* shape of DocPayload
RecordPayload(record) ==
    LET d == ModelDump(record)
        of(a) == SelectSeq(d.prices, LAMBDA pr : pr.asset = a)
    IN  [date |-> d.date, date_art |-> {d.date_art},
         prices |-> [a \in Assets |-> IF of(a) = << >> THEN << >> ELSE of(a)[1].entries]]

\* prices_data.get(asset, {}).get('price_usd')
PriceOf(pricesData, asset) ==
    {pricesData[i].price_usd : i \in {k \in 1..Len(pricesData) : pricesData[k].asset = asset}}

\* the source tags PriceEntry's validator allows
AllowedSources == {"coingecko", "goldapi"}

\* PriceEntry(**d) validates: hour is 0..23 and source_api is an allowed tag
ValidEntry(d) ==
    /\ d.hour \in 0..(HoursPerDay - 1)
    /\ d.source_api \in AllowedSources

\* DailyPriceRecord(**doc) validates: date_art is there and every entry of
\* every asset is a PriceEntry
Parseable(doc) ==
    /\ doc.date_art # {}
    /\ \A a \in Assets : \A k \in 1..Len(doc.prices[a]) : ValidEntry(doc.prices[a][k])

\* a price_entry dict that upsert_daily_prices is given with an hour that
\* PriceEntry does not take: the method validates neither
ForeignEntry ==
    [hour |-> HoursPerDay, price_usd |-> 43250, timestamp_utc |-> IsoFormat(10),
     source_api |-> "coingecko", collection_time_art |-> IsoFormat(10)]

\* the collection holding the day's document as
\* upsert_daily_prices("2025-10-24", "BTC", 24, ForeignEntry) left it
ForeignStore ==
    UpsertEntry([d \in Dates |-> NoDoc], "2025-10-24", "BTC",
                ForeignEntry.hour, ForeignEntry, 10)

\* the outcome of a downstream push: it went through, it failed (an error
\* answer or an exception), or it was still running when result(timeout=15)
\* gave up waiting for it
SendOutcomes ==
    {[sheet |-> "ok", telegram |-> "ok"],
     [sheet |-> "failed", telegram |-> "ok"],
     [sheet |-> "ok", telegram |-> "failed"],
     [sheet |-> "late", telegram |-> "ok"]}

\* pushes of which the second is given up when the first fails
AttemptedUntilFailure(out) ==
    IF out.sheet = "ok" THEN <<"sheet", "telegram">> ELSE <<"sheet">>

\* the pushes that are submitted to the executor: both are submitted before
\* either result is awaited, and the executor is left when both have run
Attempted(out) == <<"sheet", "telegram">>

\* the pushes whose result came within the timeout
JoinedInTime(out, pushes) ==
    {pushes[i] : i \in {k \in 1..Len(pushes) : out[pushes[k]] # "late"}}

\* the pushes that have run to their end when the with block of the executor
\* is left: leaving it waits for every submitted push, also for one whose
\* result(timeout=15) has timed out
Joined(out, pushes) == {pushes[i] : i \in 1..Len(pushes)}

\* a cycle that goes to the pushes as soon as the record is built
AfterBuildForward(repo) == "forward"

\* where the cycle goes once the record is built: into save_price_record when
\* there is a repository, to the pushes when there is none
AfterBuild(repo) == IF repo THEN "pull" ELSE "forward"

\* the requests that arrived before the request of the process
Earlier(p) == IF p = "p2" THEN {"p1"} ELSE {}

\* the local variables of an invocation that has parsed its hour parameter
\* and read the clock
Invocation(p, param) ==
    [pc |-> IF param.kind = "text" THEN "done" ELSE "date",
     param |-> param,
     status |-> IF param.kind = "text" THEN {400} ELSE {},
     now_art |-> now,
     target_hour |-> IF param.kind = "int" THEN param.value ELSE ArtHour(now),
     date_str |-> "",
     fetched |-> FALSE,
     results |-> << >>,
     prices_data |-> << >>, records_processed |-> 0, errors |-> << >>,
     current_hour |-> {},
     record |-> [date |-> "", date_art |-> IsoFormat(now), prices |-> << >>],
     items |-> << >>, idx |-> 1,
     overlap |-> \E q \in Procs \ {p} : Saving(q),
     pred |-> {q \in Procs : inv[q].pc = "done"},
     tosend |-> << >>, sheet |-> << >>, telegram |-> << >>,
     pre |-> NoDoc, readback |-> << >>, critical |-> FALSE,
     log |-> << >>, outcome |-> << >>, running |-> {},
     response |-> << >>]

\* handle_trigger_fetch(query_params) up to the first lines of
\* fetch_and_store_prices: a non-integer hour is answered 400; otherwise the
\* service reads the clock and settles target_hour. HTTPServer of main.py
\* serves one request at a time, in order of arrival
HandleTriggerFetch(p, param) ==
    /\ inv[p].pc = "idle"
    /\ \A q \in Procs : inv[q].pc \in {"idle", "done"}
    /\ \A q \in Earlier(p) : inv[q].pc = "done"
    /\ inv' = [inv EXCEPT ![p] = Invocation(p, param)]
    /\ UNCHANGED <<store, now, hist, cfg, rec, loaded, srv>>

\* date_str = get_art_date_string(): the clock is read again
ReadDate(p) ==
    /\ inv[p].pc = "date"
    /\ inv' = [inv EXCEPT ![p].date_str = ArtDate(now), ![p].pc = "fetch"]
    /\ UNCHANGED <<store, now, hist, cfg, rec, loaded, srv>>

\* the two fetches are joined, and the daily record is built when a price
\* came; with a repository the cycle enters save_price_record, without one it
\* goes on to forward the record it built
FetchAndBuild(p, res) ==
    LET pricesData == PricesData(res, inv[p].now_art, inv[p].now_art)
        hour == CurrentHour(inv[p].target_hour, inv[p].now_art)
        daily == BuildDailyRecord(inv[p].date_str, hour, pricesData, inv[p].now_art)
    IN
    /\ inv[p].pc = "fetch"
    /\ inv' = [inv EXCEPT
          ![p].fetched = TRUE,
          ![p].results = <<res>>,
          ![p].prices_data = pricesData,
          ![p].records_processed = Len(pricesData),
          ![p].errors = FetchErrors(res),
          ![p].current_hour = IF pricesData = << >> THEN {} ELSE {hour},
          ![p].record = IF pricesData = << >> THEN @ ELSE ModelDump(daily),
          ![p].items = IF pricesData = << >> \/ ~cfg.repo THEN << >>
                       ELSE ItemsOf(ModelDump(daily).prices),
          ![p].tosend = IF pricesData # << >> /\ ~cfg.repo
                        THEN <<RecordPayload(daily)>> ELSE << >>,
          ![p].pre = store[inv[p].date_str],
          ![p].pc = IF pricesData = << >> THEN "respond" ELSE AfterBuild(cfg.repo)]
    /\ UNCHANGED <<store, now, hist, cfg, rec, loaded, srv>>

\* updated_record = get_daily_prices(date_str): find_one answers, or it raises
\* and None comes back, and then nothing is forwarded. The document that came
\* is parsed into a DailyPriceRecord; when it does not parse, the exception
\* ends the cycle in the handler of critical errors
ReadBack(p, answered) ==
    LET doc == store[inv[p].date_str]
        got == GetDailyPrices(store, inv[p].date_str, answered)
        came == got.value # << >>
    IN
    /\ inv[p].pc = "saved"
    /\ inv' = [inv EXCEPT
          ![p].readback = got.value,
          ![p].log = Append(@, IF came THEN "read" ELSE "read_none"),
          ![p].critical = got.raised \/ (came /\ ~Parseable(doc)),
          ![p].tosend = IF came /\ Parseable(doc) THEN <<DocPayload(doc)>> ELSE << >>,
          ![p].pc = IF came /\ Parseable(doc) THEN "forward" ELSE "respond"]
    /\ UNCHANGED <<store, now, hist, cfg, rec, loaded, srv>>

\* _send_to_google_sheets and _send_telegram_notification, submitted to the
\* executor and joined; whatever comes of a push is logged and nothing more
Forward(p, out) ==
    LET pushes == Attempted(out)
        has(x) == \E i \in 1..Len(pushes) : pushes[i] = x
    IN
    /\ inv[p].pc = "forward"
    /\ inv' = [inv EXCEPT
          ![p].sheet = IF has("sheet") THEN inv[p].tosend ELSE << >>,
          ![p].telegram = IF cfg.telegram /\ has("telegram")
                          THEN <<[hour |-> inv[p].current_hour,
                                  btc_price |-> PriceOf(inv[p].prices_data, "BTC"),
                                  xau_price |-> PriceOf(inv[p].prices_data, "XAU")]>>
                          ELSE << >>,
          ![p].log = @ \o pushes,
          ![p].outcome = <<out>>,
          ![p].running = {pushes[i] : i \in 1..Len(pushes)} \ Joined(out, pushes),
          ![p].pc = "respond"]
    /\ UNCHANGED <<store, now, hist, cfg, rec, loaded, srv>>

\* an exception that leaves fetch_and_store_prices: no ServiceResponse
CriticalRaise(recordsProcessed) == << >>

\* the ServiceResponse of the handler of critical errors: success = False, the
\* count of the prices collected so far and the description of the exception
CriticalResponse(recordsProcessed) ==
    <<[success |-> FALSE, records_processed |-> recordsProcessed,
       errors |-> <<"Error critico en el servicio">>]>>

\* the ServiceResponse, and the status handle_trigger_fetch gives it: the
\* one of the end of the cycle, or the one of the handler of critical errors
Respond(p) ==
    LET success == ~inv[p].critical /\ inv[p].records_processed > 0
    IN
    /\ inv[p].pc = "respond"
    /\ inv' = [inv EXCEPT
          ![p].response = IF inv[p].critical
                          THEN CriticalResponse(inv[p].records_processed)
                          ELSE <<[success |-> success,
                                  records_processed |-> inv[p].records_processed,
                                  errors |-> inv[p].errors]>>,
          ![p].status = IF success THEN {200} ELSE {500},
          ![p].pc = "done"]
    /\ UNCHANGED <<store, now, hist, cfg, rec, loaded, srv>>

\* the pushes of the cycles whose downstream endpoints answer
DeliveredOutcomes == {o \in SendOutcomes : o.sheet = "ok" /\ o.telegram = "ok"}

NextCycle ==
    \/ Tick
    \/ \E p \in Procs, param \in HourParams : HandleTriggerFetch(p, param)
    \/ \E p \in Procs : ReadDate(p)
    \/ \E p \in Procs, res \in FetchResults : FetchAndBuild(p, res)
    \/ \E p \in Procs : PullStep(p)
    \/ \E p \in Procs : PushStep(p)
    \/ \E p \in Procs, answered \in BOOLEAN : ReadBack(p, answered)
    \/ \E p \in Procs, out \in DeliveredOutcomes : Forward(p, out)
    \/ \E p \in Procs : Respond(p)

SpecCycle == Init /\ [][NextCycle]_vars

\* the cycles of a deployment with a repository and a Telegram client, on a
\* collection that a direct caller of the repository has written
InitForeign ==
    /\ store = ForeignStore
    /\ now \in Instants
    /\ hist = << >>
    /\ inv = IdleInv
    /\ cfg = [repo |-> TRUE, telegram |-> TRUE]
    /\ rec = NewRecord
    /\ loaded = << >>
    /\ srv = IdleServer

SpecForeign == InitForeign /\ [][NextCycle]_vars

\* lambda_handler: every invocation of the function runs the cycle, and
\* invocations run side by side
LambdaHandler(p, param) ==
    /\ inv[p].pc = "idle"
    /\ inv' = [inv EXCEPT ![p] = Invocation(p, param)]
    /\ UNCHANGED <<store, now, hist, cfg, rec, loaded, srv>>

\* the hour parameters of the scheduled invocations
LambdaParams == {[kind |-> "absent"]}

\* what the fetches of the scheduled invocations return
LambdaResults == {r \in FetchResults : r.order = <<"BTC", "XAU">> /\ r.BTC.ok /\ r.XAU.ok}

NextLambda ==
    \/ Tick
    \/ \E p \in Procs, param \in LambdaParams : LambdaHandler(p, param)
    \/ \E p \in Procs : ReadDate(p)
    \/ \E p \in Procs, res \in LambdaResults : FetchAndBuild(p, res)
    \/ \E p \in Procs : PullStep(p)
    \/ \E p \in Procs : PushStep(p)
    \/ \E p \in Procs, answered \in BOOLEAN : ReadBack(p, answered)
    \/ \E p \in Procs, out \in DeliveredOutcomes : Forward(p, out)
    \/ \E p \in Procs : Respond(p)

\* two invocations of a deployment with a repository and a Telegram client,
\* on the afternoon of the first day
InitLambda ==
    /\ Init
    /\ now = 17
    /\ cfg = [repo |-> TRUE, telegram |-> TRUE]

SpecLambda == InitLambda /\ [][NextLambda]_vars

\* the cycles of the afternoon of the first day, invoked without an hour
\* parameter, whose downstream endpoints answer or fail
NextSend ==
    \/ Tick
    \/ \E p \in Procs : HandleTriggerFetch(p, [kind |-> "absent"])
    \/ \E p \in Procs : ReadDate(p)
    \/ \E p \in Procs, res \in FetchResults : FetchAndBuild(p, res)
    \/ \E p \in Procs : PullStep(p)
    \/ \E p \in Procs : PushStep(p)
    \/ \E p \in Procs, answered \in BOOLEAN : ReadBack(p, answered)
    \/ \E p \in Procs, out \in SendOutcomes : Forward(p, out)
    \/ \E p \in Procs : Respond(p)

InitSend == Init /\ now = 17

SpecSend == InitSend /\ [][NextSend]_vars

-----------------------------------------------------------------------------
(* GoldApiClient.get_gold_price: the request and its retries               *)

\* what a request to GoldAPI.io comes to: a valid body, a timeout, another
\* RequestException (connection error, HTTP error status), or a body that
\* GoldApiResponse does not take
GoldAnswers == {"ok", "timeout", "error", "invalid"}

\* a loop that goes round again after any failed request
RetryAfterAny(answer, attempt, retryCount) == answer # "ok" /\ attempt < retryCount

\* the loop goes round again: the request timed out and attempt < retry_count
RetryAfter(answer, attempt, retryCount) == answer = "timeout" /\ attempt < retryCount

\* get_gold_price(retry_count=retryCount) is entered: attempt is 0 and no
\* request has been made
GetGoldPrice(p, retryCount) ==
    /\ inv[p].pc = "idle"
    /\ inv' = [inv EXCEPT ![p] =
                  [pc |-> "request", retry_count |-> retryCount, attempt |-> 0,
                   requests |-> << >>, result |-> << >>]]
    /\ UNCHANGED <<store, now, hist, cfg, rec, loaded, srv>>

\* one round of the loop: session.get and what comes of it - the response is
\* returned, the loop continues, or the exception is raised (a body that does
\* not validate as ValueError)
GoldRequest(p, answer) ==
    /\ inv[p].pc = "request"
    /\ inv[p].attempt <= inv[p].retry_count
    /\ inv' = [inv EXCEPT
          ![p].requests = Append(@, answer),
          ![p].attempt = IF RetryAfter(answer, inv[p].attempt, inv[p].retry_count)
                         THEN @ + 1 ELSE @,
          ![p].result = IF RetryAfter(answer, inv[p].attempt, inv[p].retry_count)
                        THEN << >> ELSE <<answer>>,
          ![p].pc = IF answer = "ok" THEN "returned"
                    ELSE IF RetryAfter(answer, inv[p].attempt, inv[p].retry_count)
                    THEN "request" ELSE "raised"]
    /\ UNCHANGED <<store, now, hist, cfg, rec, loaded, srv>>

NextGold ==
    \/ \E p \in Procs, retryCount \in 0..MaxRetry : GetGoldPrice(p, retryCount)
    \/ \E p \in Procs, answer \in GoldAnswers : GoldRequest(p, answer)

SpecGold == InitRepo /\ [][NextGold]_vars

-----------------------------------------------------------------------------
(* The entry points: do_GET of main.py and lambda_handler, behind          *)
(* AuthMiddleware                                                          *)

\* Config.API_KEY: set, or not set
ApiKeys == {"k1", ""}

\* the paths requests ask for
Paths == {"/health", "/api/v1/trigger-fetch", "/other"}

\* the headers requests carry, as (name, value) pairs: none, the key under
\* the header's name in either capitalisation, another key, and the key under
\* another header
HeaderPool ==
    {<< >>,
     <<[name |-> "X-API-Key", value |-> "k1"]>>,
     <<[name |-> "x-api-key", value |-> "k1"]>>,
     <<[name |-> "X-API-Key", value |-> "k2"]>>,
     <<[name |-> "Accept", value |-> "k1"]>>}

Requests == [path : Paths, headers : HeaderPool]

\* str.lower() on the header names
Lower(name) == IF name = "X-API-Key" THEN "x-api-key" ELSE name

\* a normalisation that leaves the names as they came
NormalizeHeadersNot(headers) == headers

\* _normalize_headers: {k.lower(): v for k, v in headers.items()}
NormalizeHeaders(headers) ==
    [i \in 1..Len(headers) |-> [headers[i] EXCEPT !.name = Lower(@)]]

\* dict.get(name) on the pairs: the value of the last pair of the name, ""
\* standing for None
HeaderGet(headers, name) ==
    LET at == {i \in 1..Len(headers) : headers[i].name = name}
    IN  IF at = {} THEN "" ELSE headers[CHOOSE i \in at : \A k \in at : k <= i].value

\* AuthMiddleware.validate_api_key(headers, path): (is_valid, error_message);
\* path is not looked at
ValidateApiKey(key, headers, path) ==
    LET provided == HeaderGet(NormalizeHeaders(headers), "x-api-key")
    IN  IF key = "" THEN [valid |-> FALSE, message |-> "Server configuration error"]
        ELSE IF provided = "" THEN [valid |-> FALSE, message |-> "Missing authentication header"]
        ELSE IF provided # key THEN [valid |-> FALSE, message |-> "Invalid API Key"]
        ELSE [valid |-> TRUE, message |-> ""]

\* a request answered without a cycle: its status and body.success
Answer(status, success) ==
    [pc |-> "done", status |-> {status}, success |-> success, fetched |-> FALSE,
     items |-> << >>, log |-> << >>, sheet |-> << >>, telegram |-> << >>]

\* Router.route_request('GET', path, query) and the if/elif of lambda_handler:
\* the health check, the trigger of a cycle, or 404
RouteRequest(p, path) ==
    IF path = "/health" THEN Answer(200, TRUE)
    ELSE IF path = "/api/v1/trigger-fetch" THEN Invocation(p, [kind |-> "absent"])
    ELSE Answer(404, FALSE)

\* RequestHandler.do_GET: the middleware, then the router; HTTPServer serves
\* one request at a time
DoGet(p, req) ==
    LET auth == ValidateApiKey(srv.key, req.headers, req.path)
    IN
    /\ srv.deploy = "server"
    /\ inv[p].pc = "idle"
    /\ \A q \in Procs : inv[q].pc \in {"idle", "done"}
    /\ inv' = [inv EXCEPT ![p] = IF auth.valid THEN RouteRequest(p, req.path)
                                 ELSE Answer(401, FALSE)]
    /\ srv' = [srv EXCEPT !.reqs[p] = <<req>>]
    /\ UNCHANGED <<store, now, hist, cfg, rec, loaded>>

\* lambda_handler(event, context): the middleware, then
\* _initialize_dependencies when no invocation of the container ran it yet,
\* then the routing
LambdaRequest(p, req) ==
    LET auth == ValidateApiKey(srv.key, req.headers, req.path)
    IN
    /\ srv.deploy = "lambda"
    /\ inv[p].pc = "idle"
    /\ inv' = [inv EXCEPT ![p] = IF auth.valid THEN RouteRequest(p, req.path)
                                 ELSE Answer(401, FALSE)]
    /\ srv' = [srv EXCEPT !.reqs[p] = <<req>>,
                          !.ready = @ \/ auth.valid,
                          !.by = IF auth.valid /\ ~srv.ready THEN @ \cup {p} ELSE @]
    /\ UNCHANGED <<store, now, hist, cfg, rec, loaded>>

NextGate ==
    \/ \E p \in Procs, req \in Requests : DoGet(p, req)
    \/ \E p \in Procs, req \in Requests : LambdaRequest(p, req)
    \/ \E p \in Procs : ReadDate(p)
    \/ \E p \in Procs, res \in LambdaResults : FetchAndBuild(p, res)
    \/ \E p \in Procs : PullStep(p)
    \/ \E p \in Procs : PushStep(p)
    \/ \E p \in Procs : ReadBack(p, TRUE)
    \/ \E p \in Procs, out \in DeliveredOutcomes : Forward(p, out)
    \/ \E p \in Procs : Respond(p)

\* either deployment at 17:00, with or without API_KEY, no request received;
\* the Lambda container has not initialised its dependencies
InitGate ==
    /\ store = [d \in Dates |-> NoDoc]
    /\ now = 17
    /\ hist = << >>
    /\ inv = IdleInv
    /\ cfg = [repo |-> TRUE, telegram |-> TRUE]
    /\ rec = NewRecord
    /\ loaded = << >>
    /\ \E deploy \in {"server", "lambda"}, key \in ApiKeys :
          srv = [deploy |-> deploy, key |-> key, ready |-> deploy = "server", by |-> {},
                 reqs |-> [p \in Procs |-> << >>]]

SpecGate == InitGate /\ [][NextGate]_vars

\* what GoldAPI.io answers: a body with a price - a quote, zero or a negative
\* number - or a body without one
SourceQuotes ==
    {[has |-> TRUE, price |-> 2738], [has |-> TRUE, price |-> 0],
     [has |-> TRUE, price |-> -1], [has |-> FALSE]}

\* _fetch_gold_price: GoldApiResponse(**data) raises on a body without a
\* price, and the fetch returns None; any number that is there is returned as
\* price_usd
FetchGoldPrice(quote) == IF quote.has THEN Fetched(quote.price) ELSE FetchFailed

\* the two fetch threads' returns when CoinGecko quotes and GoldAPI.io answers
\* one of SourceQuotes
QuotedResults ==
    {[order |-> <<"BTC", "XAU">>, BTC |-> Fetched(43250), XAU |-> FetchGoldPrice(q)] :
        q \in SourceQuotes}

\* cycles at 17:00 whose gold source answers any of SourceQuotes
NextPrice ==
    \/ Tick
    \/ \E p \in Procs : HandleTriggerFetch(p, [kind |-> "absent"])
    \/ \E p \in Procs : ReadDate(p)
    \/ \E p \in Procs, res \in QuotedResults : FetchAndBuild(p, res)
    \/ \E p \in Procs : PullStep(p)
    \/ \E p \in Procs : PushStep(p)
    \/ \E p \in Procs : ReadBack(p, TRUE)
    \/ \E p \in Procs, out \in DeliveredOutcomes : Forward(p, out)
    \/ \E p \in Procs : Respond(p)

SpecPrice == InitSend /\ [][NextPrice]_vars

-----------------------------------------------------------------------------
(* Properties of the repository under one caller at a time (Spec)          *)

\* lines i-1 and i of the history are two upserts in sequence of the same
\* asset of the same date
SameList(i) ==
    /\ hist[i].date = hist[i-1].date
    /\ hist[i].asset = hist[i-1].asset

\* the entries of the list that are filed under the hour
AtHour(entries, hour) == {e \in EntrySet(entries) : e.hour = hour}

\* how many entries of the list carry the price
CountPrice(entries, price) ==
    Cardinality({i \in 1..Len(entries) : entries[i].price_usd = price})

\* C1: running the per-entry upsert twice in sequence with the same entry
\* leaves the asset's list as it was after the first run, with exactly one
\* entry under the hour, equal to the entry
C1_IdempotentPersist ==
    \A i \in 2..Len(hist) :
        (SameList(i) /\ hist[i].entry = hist[i-1].entry)
        => /\ hist[i].after = hist[i-1].after
           /\ CountHour(hist[i].after, hist[i].entry.hour) = 1
           /\ AtHour(hist[i].after, hist[i].entry.hour) = {hist[i].entry}

\* the same entry has been upserted twice in sequence into a list that held
\* an entry of another hour
C1_Witness ==
    \E i \in 2..Len(hist) :
        /\ SameList(i)
        /\ hist[i].entry = hist[i-1].entry
        /\ hist[i-1].before # << >>

\* C2: an upsert under hour h2 keeps every entry of another hour h1 that the
\* list held, with the same price, source timestamp, source tag and collection
\* time, and the list then holds the asset at h1 and at h2
C2_NonDestructiveMerge ==
    \A i \in 1..Len(hist) :
        \A k \in 1..Len(hist[i].before) :
            hist[i].before[k].hour # hist[i].entry.hour
            => /\ CountHour(hist[i].after, hist[i].before[k].hour) = 1
               /\ AtHour(hist[i].after, hist[i].before[k].hour) = {hist[i].before[k]}
               /\ AtHour(hist[i].after, hist[i].entry.hour) = {hist[i].entry}

\* an entry has been upserted under 17 into a list that held an entry under 10
C2_Witness ==
    \E i \in 1..Len(hist) :
        /\ hist[i].entry.hour = 17
        /\ \E k \in 1..Len(hist[i].before) : hist[i].before[k].hour = 10

SortedByHour(entries) ==
    \A i, j \in 1..Len(entries) : i < j => entries[i].hour < entries[j].hour

\* C4: after any sequence of persists every asset's list of every document is
\* sorted strictly ascending by hour, with no hour twice
C4_HourOrdering ==
    \A d \in Dates, a \in Assets : SortedByHour(ListOf(store, d, a))

\* the part of C4 that the upserts of one caller at a time keep: no hour twice
NoDuplicateHour ==
    \A d \in Dates, a \in Assets :
        \A h \in 0..(HoursPerDay - 1) : CountHour(ListOf(store, d, a), h) <= 1

\* the list after $pull of the entry's hour and $push of the entry
UpsertList(entries, entry) == PushEntry(PullHour(entries, entry.hour), entry)

\* C7: two upserts in sequence under different hours leave the entries of the
\* other hours that the list held and the two entries, each hour once, and
\* the same entries as the two upserts in the other order leave from the same
\* list
C7_OrderIndependent ==
    \A i \in 2..Len(hist) :
        (SameList(i) /\ hist[i].entry.hour # hist[i-1].entry.hour)
        => LET other == UpsertList(UpsertList(hist[i-1].before, hist[i].entry),
                                   hist[i-1].entry)
           IN  /\ EntrySet(hist[i].after) = EntrySet(other)
               /\ Len(hist[i].after) = Len(other)
               /\ EntrySet(hist[i].after)
                  = {e \in EntrySet(hist[i-1].before) :
                        e.hour \notin {hist[i].entry.hour, hist[i-1].entry.hour}}
                    \cup {hist[i-1].entry, hist[i].entry}
               /\ CountHour(hist[i].after, hist[i].entry.hour) = 1
               /\ CountHour(hist[i].after, hist[i-1].entry.hour) = 1

\* the later hour has been upserted before the earlier one
C7_Witness ==
    \E i \in 2..Len(hist) :
        /\ SameList(i)
        /\ hist[i-1].entry.hour = 17
        /\ hist[i].entry.hour = 10

-----------------------------------------------------------------------------
(* Properties of the repository under concurrent invocations (SpecConc)    *)

\* the hours under which the invocation's record files entries
RecordHours(p) == {inv[p].items[i].entry.hour : i \in 1..Len(inv[p].items)}

\* the two invocations have returned from save_price_record, having written
\* the same date under different hours
BothSavedApart ==
    /\ \A p \in Procs : inv[p].pc = "saved"
    /\ inv["p1"].record.date = inv["p2"].record.date
    /\ RecordHours("p1") \cap RecordHours("p2") = {}

\* C5: no list of the store ever holds two entries with the same hour, also
\* when the $pull and $push of two invocations interleave
C5_UniqueUnderConcurrency ==
    \A d \in Dates, a \in Assets :
        \A i, j \in 1..Len(ListOf(store, d, a)) :
            ListOf(store, d, a)[i].hour = ListOf(store, d, a)[j].hour => i = j

-----------------------------------------------------------------------------
(* Properties of the fetch-and-store cycle                                 *)

\* the invocation was made with an integer hour parameter
ExplicitHour(p) == inv[p].pc # "idle" /\ inv[p].param.kind = "int"

\* the hours of the day
ValidHours == 0..(HoursPerDay - 1)

\* both fetches of the invocation succeeded, and it has returned
BothFetched(p) == inv[p].pc = "done" /\ inv[p].fetched /\ Len(inv[p].prices_data) = 2

\* C8: a cycle invoked with an explicit hour h in 0..23 files every entry it
\* builds, persists and forwards under h, whatever the clock says
C8_ExplicitHourVerbatim ==
    \A p \in Procs :
        (ExplicitHour(p) /\ inv[p].param.value \in ValidHours)
        => /\ \A i \in 1..Len(inv[p].record.prices) :
                  \A k \in 1..Len(inv[p].record.prices[i].entries) :
                      inv[p].record.prices[i].entries[k].hour = inv[p].param.value
           /\ \A i \in 1..Len(inv[p].items) :
                  inv[p].items[i].entry.hour = inv[p].param.value
           /\ \A i \in 1..Len(inv[p].telegram) :
                  inv[p].telegram[i].hour = {inv[p].param.value}

\* C9: with no document for the day, a cycle invoked with hour=10 whose two
\* fetches succeed, followed the same day by a cycle invoked with hour=17
\* whose two fetches succeed, leaves a document in which each asset has
\* exactly two entries, under 10 with the first cycle's price and under 17
\* with the second cycle's
C9_TwoCycleScenario ==
    (/\ cfg.repo
     /\ BothFetched("p1") /\ BothFetched("p2")
     /\ inv["p1"].param = [kind |-> "int", value |-> 10]
     /\ inv["p2"].param = [kind |-> "int", value |-> 17]
     /\ inv["p1"].date_str = inv["p2"].date_str)
    => \A a \in Assets :
           LET list == ListOf(store, inv["p1"].date_str, a) IN
           /\ Len(list) = 2
           /\ \E i \in 1..Len(list) :
                  list[i].hour = 10 /\ {list[i].price_usd} = PriceOf(inv["p1"].prices_data, a)
           /\ \E i \in 1..Len(list) :
                  list[i].hour = 17 /\ {list[i].price_usd} = PriceOf(inv["p2"].prices_data, a)

\* C10: an invocation whose hour parameter is an integer outside 0..23 ends
\* with an error outcome and fetches no price, writes nothing to the store
\* and forwards nothing
C10_InvalidHourRejected ==
    \A p \in Procs :
        (ExplicitHour(p) /\ inv[p].param.value \notin ValidHours)
        => /\ ~inv[p].fetched
           /\ inv[p].items = << >>
           /\ inv[p].sheet = << >> /\ inv[p].telegram = << >>
           /\ inv[p].pc = "done" => inv[p].status # {200}

\* the invocation was made without an hour parameter
DefaultHour(p) == inv[p].pc # "idle" /\ inv[p].param.kind = "absent"

\* the assets whose fetch failed in the invocation
FailedAssets(p) == {inv[p].errors[i] : i \in 1..Len(inv[p].errors)}

\* the invocation has joined its fetches and has got a price
GotPrice(p) == inv[p].pc # "idle" /\ inv[p].fetched /\ FailedAssets(p) # Assets

\* the event is in the invocation's log
Logged(p, event) == \E i \in 1..Len(inv[p].log) : inv[p].log[i] = event

\* no invocation has started after the invocation
Latest(p) == \A q \in Procs \ {p} : q \in inv[p].pred \/ inv[q].pc = "idle"

\* C11: a cycle invoked without an hour parameter files its entries - in the
\* record it builds, in the store and in its notification - under the
\* hour-of-day of the instant it read when it started
C11_DefaultHour ==
    \A p \in Procs :
        DefaultHour(p)
        => LET h == inv[p].now_art % HoursPerDay IN
           /\ inv[p].current_hour \subseteq {h}
           /\ \A i \in 1..Len(inv[p].record.prices) :
                  \A k \in 1..Len(inv[p].record.prices[i].entries) :
                      inv[p].record.prices[i].entries[k].hour = h
           /\ \A i \in 1..Len(inv[p].items) : inv[p].items[i].entry.hour = h
           /\ \A i \in 1..Len(inv[p].telegram) : inv[p].telegram[i].hour = {h}
           /\ inv[p].pc = "saved"
              => \A i \in 1..Len(inv[p].items) :
                     \E e \in EntrySet(ListOf(store, inv[p].date_str, inv[p].items[i].asset)) :
                         e.hour = h /\ e.price_usd = inv[p].items[i].entry.price_usd

\* a cycle without an hour parameter has saved two entries and has returned,
\* and the clock has moved on since it started
C11_Witness ==
    \E p \in Procs :
        /\ DefaultHour(p)
        /\ inv[p].pc = "done"
        /\ Len(inv[p].items) = 2
        /\ inv[p].sheet # << >>
        /\ now > inv[p].now_art

\* C12: a cycle in which exactly one of the two fetches failed returns
\* records_processed = 1, exactly one error string and success = true
C12_PartialFailureOutcome ==
    \A p \in Procs :
        (inv[p].pc = "done" /\ inv[p].fetched /\ Cardinality(FailedAssets(p)) = 1)
        => /\ inv[p].response[1].records_processed = 1
           /\ Len(inv[p].response[1].errors) = 1
           /\ inv[p].response[1].success

\* C13: when a cycle has saved its record, the list of an asset whose fetch
\* failed is the list the store held before, and the list of a fetched asset
\* differs from the one before only at the cycle's hour, where it holds the
\* cycle's entry alone
C13_WritesOnlyFetched ==
    \A p \in Procs :
        (/\ cfg.repo /\ GotPrice(p) /\ Latest(p)
         /\ inv[p].pc \in {"saved", "forward", "respond", "done"})
        => \A a \in Assets :
               LET list == ListOf(store, inv[p].date_str, a)
                   old == IF inv[p].pre.present THEN inv[p].pre.prices[a] ELSE << >>
                   other(l) == SelectSeq(l, LAMBDA e : {e.hour} # inv[p].current_hour)
               IN  IF a \in FailedAssets(p)
                   THEN list = old
                   ELSE /\ other(list) = other(old)
                        /\ \A h \in inv[p].current_hour :
                               /\ CountHour(list, h) = 1
                               /\ \A e \in AtHour(list, h) :
                                      {e.price_usd} = PriceOf(inv[p].prices_data, a)

\* a cycle whose gold fetch failed has saved its record into a document that
\* held a gold entry and a bitcoin entry of another hour
C13_Witness ==
    \E p \in Procs :
        /\ cfg.repo /\ inv[p].pc = "done" /\ Latest(p)
        /\ inv[p].fetched /\ FailedAssets(p) = {"XAU"}
        /\ inv[p].pre.present
        /\ inv[p].pre.prices["XAU"] # << >>
        /\ \E k \in 1..Len(inv[p].pre.prices["BTC"]) :
               {inv[p].pre.prices["BTC"][k].hour} # inv[p].current_hour

\* C14: the outcome a cycle returns has success = true exactly when at least
\* one fetch succeeded, whatever the store write, the read-back (a document
\* that does not parse included) and the pushes did
C14_SuccessDefinition ==
    \A p \in Procs :
        (inv[p].pc = "done" /\ inv[p].fetched)
        => (inv[p].response[1].success <=> FailedAssets(p) # Assets)

\* the store was not available to the cycle: no repository was built, or
\* get_daily_prices returned nothing
Unavailable(p) == ~cfg.repo \/ Logged(p, "read_none")

\* the record the cycle built in memory, as the spreadsheet endpoint is sent it
InMemory(p) ==
    [date |-> inv[p].record.date, date_art |-> {inv[p].record.date_art},
     prices |-> [a \in Assets |->
                   LET of == SelectSeq(inv[p].record.prices, LAMBDA pr : pr.asset = a)
                   IN  IF of = << >> THEN << >> ELSE of[1].entries]]

\* C15: a cycle that fetched a price while the store was unavailable still
\* sends the spreadsheet endpoint a document, the record it built in memory
C15_StorageDegradation ==
    \A p \in Procs :
        (inv[p].pc = "done" /\ GotPrice(p) /\ Unavailable(p))
        => /\ Logged(p, "sheet")
           /\ inv[p].sheet = <<InMemory(p)>>

\* C16: in an invocation with a repository, a push is logged only after the
\* return of save_price_record, all its entries written, and after the
\* read-back that followed it
C16_PersistBeforeForward ==
    \A p \in Procs :
        (cfg.repo /\ inv[p].pc # "idle")
        => \A i \in 1..Len(inv[p].log) :
               inv[p].log[i] \in {"sheet", "telegram"}
               => /\ inv[p].idx > Len(inv[p].items)
                  /\ \E j \in 1..(i - 1) : \E k \in (j + 1)..(i - 1) :
                         inv[p].log[j] = "saved" /\ inv[p].log[k] = "read"

\* a cycle with a repository has written, read back and pushed
C16_Witness ==
    \E p \in Procs :
        /\ cfg.repo /\ inv[p].pc = "done"
        /\ inv[p].log = <<"saved", "read", "sheet", "telegram">>

\* C17: the document a cycle sends to the spreadsheet endpoint holds, for
\* every asset it fetched, an entry under the cycle's hour with the cycle's
\* price, also when another invocation writes the same date meanwhile
C17_PayloadReflectsWrites ==
    \A p \in Procs :
        (inv[p].pc # "idle" /\ inv[p].sheet # << >>)
        => \A i \in 1..Len(inv[p].prices_data) :
               \E e \in EntrySet(inv[p].sheet[1].prices[inv[p].prices_data[i].asset]) :
                   /\ {e.hour} = inv[p].current_hour
                   /\ e.price_usd = inv[p].prices_data[i].price_usd

\* C18: the payload sent to the spreadsheet endpoint is the document that was
\* read back from the store, every field of it, the lists in stored order
C18_UnmodifiedForward ==
    \A p \in Procs :
        (inv[p].pc # "idle" /\ inv[p].sheet # << >> /\ inv[p].readback # << >>)
        => inv[p].sheet[1] = inv[p].readback[1]

\* C19: with a Telegram client, a cycle that fetched a price emits exactly
\* one notification, with the cycle's target hour and the prices of exactly
\* the assets it fetched
C19_NotificationContent ==
    \A p \in Procs :
        (cfg.telegram /\ inv[p].pc = "done" /\ GotPrice(p))
        => /\ Len(inv[p].telegram) = 1
           /\ inv[p].telegram[1].hour = {inv[p].target_hour}
           /\ \A a \in Assets :
                  LET line == IF a = "BTC" THEN inv[p].telegram[1].btc_price
                              ELSE inv[p].telegram[1].xau_price
                  IN  /\ a \in FailedAssets(p) => line = {}
                      /\ a \notin FailedAssets(p) => line = PriceOf(inv[p].prices_data, a)

\* C20: a cycle that reaches the pushes attempts both, whatever comes of
\* either - the document goes to the spreadsheet endpoint and, with a
\* Telegram client, the notification goes out - and returns success
C20_IndependentSends ==
    \A p \in Procs :
        (inv[p].pc # "idle" /\ inv[p].outcome # << >>)
        => /\ Logged(p, "sheet") /\ Logged(p, "telegram")
           /\ inv[p].sheet = inv[p].tosend
           /\ cfg.telegram => Len(inv[p].telegram) = 1
           /\ inv[p].pc = "done" => inv[p].response[1].success

\* a cycle whose spreadsheet push failed has sent its notification and has
\* returned
C20_Witness ==
    \E p \in Procs :
        /\ inv[p].pc = "done" /\ cfg.telegram
        /\ inv[p].outcome = <<[sheet |-> "failed", telegram |-> "ok"]>>
        /\ inv[p].telegram # << >>

\* a push of the invocation failed
PushFailed(p, push) ==
    /\ inv[p].pc # "idle"
    /\ inv[p].outcome # << >>
    /\ inv[p].outcome[1][push] = "failed"

\* C21: when the spreadsheet push or the notification push of a cycle fails,
\* the errors of the outcome the cycle returns hold an entry for that push
C21_ForwardFailuresReported ==
    \A p \in Procs : \A push \in {"sheet", "telegram"} :
        (inv[p].pc = "done" /\ PushFailed(p, push))
        => \E i \in 1..Len(inv[p].response[1].errors) :
               inv[p].response[1].errors[i] = push

\* C22: every invocation that enters fetch_and_store_prices gets one
\* ServiceResponse back, and when an exception ended the cycle the response
\* has success = false and the description of the exception as its error
C22_StructuredOutcome ==
    \A p \in Procs :
        (inv[p].pc = "done" /\ inv[p].param.kind # "text")
        => /\ Len(inv[p].response) = 1
           /\ inv[p].critical
              => /\ ~inv[p].response[1].success
                 /\ inv[p].response[1].errors = <<"Error critico en el servicio">>
                 /\ inv[p].status = {500}

\* a cycle that fetched two prices has ended in the handler of critical
\* errors and has returned
C22_Witness ==
    \E p \in Procs :
        /\ inv[p].pc = "done" /\ inv[p].critical
        /\ inv[p].records_processed = 2
        /\ inv[p].response # << >>

\* C23: when the fetches are joined, the price of every asset whose fetch
\* returned one is in prices_data and counted, whatever the other fetch did,
\* and the errors name exactly the assets whose fetch returned nothing
C23_IndependentFetches ==
    \A p \in Procs :
        (inv[p].pc # "idle" /\ inv[p].fetched)
        => LET res == inv[p].results[1]
               ok == {a \in Assets : res[a].ok}
           IN  /\ \A a \in ok : PriceOf(inv[p].prices_data, a) = {res[a].price}
               /\ \A a \in Assets \ ok : PriceOf(inv[p].prices_data, a) = {}
               /\ inv[p].records_processed = Cardinality(ok)
               /\ Len(inv[p].errors) = Cardinality(Assets \ ok)
               /\ FailedAssets(p) = Assets \ ok

\* the bitcoin fetch of a cycle failed after the gold fetch had completed,
\* and the cycle has returned the gold price's outcome
C23_Witness ==
    \E p \in Procs :
        /\ inv[p].pc = "done" /\ inv[p].fetched
        /\ inv[p].results[1].order = <<"XAU", "BTC">>
        /\ ~inv[p].results[1].BTC.ok
        /\ inv[p].response[1].records_processed = 1

-----------------------------------------------------------------------------
(* Properties of get_daily_prices under a direct caller (SpecLoad)         *)

\* C24: get_daily_prices never raises; while no upsert has completed since,
\* its answer is the date's whole document when the store answers and holds
\* one, and nothing when the store holds none or does not answer
C24_LoadNeverRaises ==
    \A i \in 1..Len(loaded) :
        /\ ~loaded[i].raised
        /\ loaded[i].at = Len(hist)
           => LET doc == store[loaded[i].date] IN
              IF loaded[i].answered /\ doc.present
              THEN /\ Len(loaded[i].value) = 1
                   /\ loaded[i].value[1].date = loaded[i].date
                   /\ loaded[i].value[1].date_art = doc.date_art
                   /\ loaded[i].value[1].prices = doc.prices
                   /\ loaded[i].value[1].created_at = doc.created_at
                   /\ loaded[i].value[1].updated_at = doc.updated_at
              ELSE loaded[i].value = << >>

\* the store did not answer the load of a date whose document holds two
\* entries
C24_Witness ==
    \E i \in 1..Len(loaded) :
        /\ ~loaded[i].answered
        /\ loaded[i].at = Len(hist)
        /\ Len(ListOf(store, loaded[i].date, "BTC")) = 2

-----------------------------------------------------------------------------
(* Properties of the document's stamps (SpecStamp)                         *)

\* C25: the write that creates a date's document stamps created_at and
\* updated_at with its time; every later write leaves the document in place,
\* keeps created_at, never takes updated_at back, and when it changes the
\* document updated_at is its time
C25_Stamps ==
    [][\A d \in Dates :
          /\ store[d].present
             => /\ store'[d].present
                /\ store'[d].created_at = store[d].created_at
                /\ store'[d].updated_at >= store[d].updated_at
                /\ store'[d] # store[d] => store'[d].updated_at = now
          /\ (~store[d].present /\ store'[d].present)
             => /\ store'[d].created_at = now
                /\ store'[d].updated_at = now]_vars

\* a document created at 10:00 has been written again at 17:00 and at 24:00
C25_Witness ==
    \E d \in Dates :
        /\ store[d].present
        /\ store[d].created_at = 10
        /\ store[d].updated_at = 24
        /\ Len(hist) = MaxOps

-----------------------------------------------------------------------------
(* Properties of the collection under racing upserts (SpecUpsert)          *)

-----------------------------------------------------------------------------
(* Properties of the record in memory (SpecRecord)                         *)

\* the lines of the record's history that are calls of the method
CallsOf(op) == {i \in 1..Len(rec.calls) : rec.calls[i].op = op}

\* C27: after any sequence of add_price calls on a record, the list of every
\* asset is sorted ascending by hour and holds no hour twice
C27_RecordSorted ==
    \A a \in DOMAIN rec.prices :
        /\ SortedByHour(rec.prices[a])
        /\ \A h \in CallHours : CountHour(rec.prices[a], h) <= 1

\* add_price has put an earlier hour into a list that held a later one
C27_Witness ==
    \E i \in CallsOf("add_price") :
        /\ rec.calls[i].asset \in DOMAIN rec.calls[i].before
        /\ rec.calls[i].arg[1].hour < rec.calls[i].before[rec.calls[i].asset][1].hour
        /\ Len(rec.prices[rec.calls[i].asset]) >= 2

\* C28: add_price called twice in a row with the same asset and entry leaves
\* the record as the first call left it
C28_RecordIdempotent ==
    \A i \in CallsOf("add_price") :
        (/\ i - 1 \in CallsOf("add_price")
         /\ rec.calls[i].asset = rec.calls[i - 1].asset
         /\ rec.calls[i].arg = rec.calls[i - 1].arg)
        => rec.calls[i].after = rec.calls[i - 1].after

\* add_price has been called twice in a row with the same entry, on a record
\* that held an entry of another hour
C28_Witness ==
    \E i \in CallsOf("add_price") :
        /\ i - 1 \in CallsOf("add_price")
        /\ rec.calls[i].asset = rec.calls[i - 1].asset
        /\ rec.calls[i].arg = rec.calls[i - 1].arg
        /\ rec.calls[i - 1].asset \in DOMAIN rec.calls[i - 1].before

\* the add_price calls before line i that stored an entry for the asset and
\* the hour
StoredBefore(i, asset, hour) ==
    {j \in CallsOf("add_price") :
        j < i /\ rec.calls[j].asset = asset /\ rec.calls[j].arg[1].hour = hour}

-----------------------------------------------------------------------------
(* Properties of the end of the forwarding (SpecSend)                      *)

\* C30: fetch_and_store_prices returns its outcome only when the spreadsheet
\* push and the notification push it started have finished or failed: an
\* invocation that is about to return, or has returned, has no push running
C30_JoinedBeforeReturn ==
    \A p \in Procs :
        inv[p].pc \in {"respond", "done"} => inv[p].running = {}

\* a cycle has returned whose spreadsheet push outlasted the wait for its
\* result
C30_Witness ==
    \E p \in Procs :
        /\ inv[p].pc = "done"
        /\ inv[p].response # << >>
        /\ inv[p].outcome = <<[sheet |-> "late", telegram |-> "ok"]>>
        /\ inv[p].running = {}

-----------------------------------------------------------------------------
(* Properties of the prices a cycle takes from its sources (SpecPrice)     *)

\* C31: a fetched price that is zero, negative or missing is rejected before
\* an entry is built: the asset is among the cycle's failed fetches, and no
\* entry with a non-positive price is stored or sent to the spreadsheet
C31_PriceValidation ==
    /\ \A d \in Dates, a \in Assets :
           \A e \in EntrySet(ListOf(store, d, a)) : e.price_usd > 0
    /\ \A p \in Procs :
           inv[p].pc = "done" =>
              /\ \A a \in Assets :
                     (inv[p].results[1][a].ok /\ inv[p].results[1][a].price <= 0)
                     => \E i \in 1..Len(inv[p].response[1].errors) :
                            inv[p].response[1].errors[i] = a
              /\ \A i \in 1..Len(inv[p].sheet) : \A a \in Assets :
                     \A k \in 1..Len(inv[p].sheet[i].prices[a]) :
                         inv[p].sheet[i].prices[a][k].price_usd > 0

-----------------------------------------------------------------------------
(* Properties of the document's date_art                                   *)

\* the instant at which the calendar date starts in ART
LocalMidnight(date) == IF date = ArtDate(0) THEN 0 ELSE HoursPerDay

\* C32: the date_art of a stored document is the start, in ART, of the
\* calendar date its date key names, whatever writes the date has seen
C32_LocalMidnight ==
    \A d \in Dates :
        store[d].present => store[d].date_art = {IsoFormat(LocalMidnight(d))}

-----------------------------------------------------------------------------
(* Properties of the entry points (SpecGate)                               *)

\* the request the process sent asks for the path
Asked(p, path) == srv.reqs[p] # << >> /\ srv.reqs[p][1].path = path

\* C33: a GET of /health is answered 200 with success = true, with or without
\* an authentication header, and starts no fetch cycle
C33_HealthEndpoint ==
    \A p \in Procs :
        Asked(p, "/health")
        => /\ inv[p].pc = "done"
           /\ inv[p].status = {200}
           /\ inv[p].success
           /\ ~inv[p].fetched

\* the request of the process carries the configured key under the header
\* X-API-Key, in whatever capitalisation of the name
Authorised(p) ==
    /\ srv.key # ""
    /\ \E i \in 1..Len(srv.reqs[p][1].headers) :
          /\ srv.reqs[p][1].headers[i].name \in {"X-API-Key", "x-api-key"}
          /\ srv.reqs[p][1].headers[i].value = srv.key

-----------------------------------------------------------------------------
(* Properties of save_price_record on a failing store (SpecWrite)          *)

\* C34: save_price_record returns True only when the $pull and the $push of
\* every entry of the record went through
C34_SaveReportsTruth ==
    \A p \in Procs :
        inv[p].pc = "saved" => ~Logged(p, "upsert_error")

-----------------------------------------------------------------------------
(* Properties of the readers of a store that is being written (SpecRead)   *)

\* the document get_daily_prices answered holds an entry of the asset under
\* the hour
Answered(load, asset, hour) ==
    /\ load.value # << >>
    /\ \E e \in EntrySet(load.value[1].prices[asset]) : e.hour = hour

\* C35: every get_daily_prices(date) answers a document that holds an entry
\* for each (asset, hour) that a save_price_record which has returned wrote
\* to the date, also while another invocation is between its $pull and its
\* $push of that hour
C35_NoVanishingEntry ==
    [][loaded' # loaded
       => \A q \in Procs :
              (inv[q].pc = "saved" /\ inv[q].record.date = loaded'[1].date)
              => \A i \in 1..Len(inv[q].items) :
                     Answered(loaded'[1], inv[q].items[i].asset,
                              inv[q].items[i].entry.hour)]_vars

-----------------------------------------------------------------------------
(* Properties of add_price on records of any content (SpecBuilt)           *)

\* the entries of the list that are not filed under the hour, in list order
OtherHours(entries, hour) == SelectSeq(entries, LAMBDA e : e.hour # hour)

\* how often the entry is in the list
CountEntry(entries, entry) == Cardinality({i \in 1..Len(entries) : entries[i] = entry})

\* the hours of the list never go down
AscendingByHour(entries) ==
    \A i, j \in 1..Len(entries) : i < j => entries[i].hour <= entries[j].hour

\* C36 as claimed: whatever the record holds, add_price(asset, entry) leaves
\* the entries of the other hours of the asset's list in place and in their
\* order, and leaves the lists of the other assets as they were
C36_OwnHourOnly ==
    \A i \in CallsOf("add_price") :
        LET c == rec.calls[i] IN
        /\ OtherHours(PricesGet(c.after, c.asset), c.arg[1].hour)
              = OtherHours(PricesGet(c.before, c.asset), c.arg[1].hour)
        /\ \A a \in DOMAIN c.before \ {c.asset} : c.after[a] = c.before[a]

\* C36 amended: whatever the record holds, add_price(asset, entry) keeps every
\* entry of the other hours of the asset's list and leaves the lists of the
\* other assets as they were; it keeps the order of the entries of the other
\* hours when the list was ascending by hour or already held the entry's hour
C36_OwnHourOnlyAmended ==
    \A i \in CallsOf("add_price") :
        LET c == rec.calls[i]
            before == PricesGet(c.before, c.asset)
            after == PricesGet(c.after, c.asset)
            hour == c.arg[1].hour
        IN
        /\ \A e \in EntrySet(before) \cup EntrySet(after) :
               e.hour # hour => CountEntry(after, e) = CountEntry(before, e)
        /\ \A a \in DOMAIN c.before \ {c.asset} : c.after[a] = c.before[a]
        /\ (AscendingByHour(before) \/ CountHour(before, hour) > 0)
              => OtherHours(after, hour) = OtherHours(before, hour)

\* add_price has put an entry of a new hour into a list that was not
\* ascending, and the list came out in another order
C36_Witness ==
    \E i \in CallsOf("add_price") :
        LET c == rec.calls[i] IN
        /\ ~AscendingByHour(PricesGet(c.before, c.asset))
        /\ CountHour(PricesGet(c.before, c.asset), c.arg[1].hour) = 0
        /\ OtherHours(PricesGet(c.after, c.asset), c.arg[1].hour)
              # PricesGet(c.before, c.asset)

-----------------------------------------------------------------------------
(* Properties of the instant a cycle files its entries under               *)

\* C37: the date key of the record a cycle builds and the hour of the
\* record's entries are the date and the hour, in ART, of one instant: the
\* one the cycle read the clock at first
C37_OneInstant ==
    \A p \in Procs :
        (inv[p].pc # "idle" /\ inv[p].fetched /\ inv[p].prices_data # << >>)
        => /\ inv[p].record.date = ArtDate(inv[p].now_art)
           /\ \A i \in 1..Len(inv[p].record.prices) :
                  \A k \in 1..Len(inv[p].record.prices[i].entries) :
                      inv[p].record.prices[i].entries[k].hour = ArtHour(inv[p].now_art)

-----------------------------------------------------------------------------
(* Properties of the counts of the outcome (SpecForeign)                   *)

\* the cycle of the process has returned its ServiceResponse from the end of
\* fetch_and_store_prices, not from the handler of critical errors
EndedPlainly(p) ==
    /\ inv[p].pc = "done"
    /\ inv[p].param.kind # "text"
    /\ ~inv[p].critical

\* C38: in every cycle that ends without a critical exception,
\* records_processed is the number of assets whose fetch returned a price,
\* errors holds one line for each asset whose fetch failed and no other, and
\* the two add up to the two assets
C38_OutcomeAccounting ==
    \A p \in Procs :
        EndedPlainly(p)
        => LET out == inv[p].response[1]
               res == inv[p].results[1]
           IN  /\ out.records_processed = Cardinality({a \in Assets : res[a].ok})
               /\ Len(out.errors) = Cardinality({a \in Assets : ~res[a].ok})
               /\ {out.errors[i] : i \in 1..Len(out.errors)} = {a \in Assets : ~res[a].ok}
               /\ out.records_processed + Len(out.errors) = Cardinality(Assets)

\* a cycle whose two fetches failed has returned, and so has one of which one
\* fetch failed
C38_Witness ==
    \E p, q \in Procs :
        /\ EndedPlainly(p) /\ EndedPlainly(q)
        /\ inv[p].response[1].records_processed = 0 /\ Len(inv[p].response[1].errors) = 2
        /\ inv[q].response[1].records_processed = 1 /\ Len(inv[q].response[1].errors) = 1

-----------------------------------------------------------------------------
(* Properties of get_gold_price (SpecGold)                                 *)

\* C40: get_gold_price makes at most retry_count + 1 requests; every request
\* but the last timed out; it returns on the first valid response, raises at
\* once on an error that is no timeout, and raises the timeout when the last
\* of the retry_count + 1 requests timed out; while it has neither returned
\* nor raised it has requests left to make
C40_BoundedRetry ==
    \A p \in Procs :
        inv[p].pc # "idle" =>
           LET reqs == inv[p].requests
               n == Len(reqs)
           IN  /\ n <= inv[p].retry_count + 1
               /\ \A i \in 1..(n - 1) : reqs[i] = "timeout"
               /\ inv[p].pc = "request" <=> (n <= inv[p].retry_count /\ (n = 0 \/ reqs[n] = "timeout"))
               /\ inv[p].pc = "returned" <=> (n > 0 /\ reqs[n] = "ok")
               /\ inv[p].pc = "raised"
                     <=> (n > 0 /\ (\/ reqs[n] \in {"error", "invalid"}
                                    \/ reqs[n] = "timeout" /\ n = inv[p].retry_count + 1))
               /\ inv[p].pc \in {"returned", "raised"} => inv[p].result = <<reqs[n]>>

\* a call has returned the response of its last allowed request after
\* timeouts, another has raised the timeout of its last request, and neither
\* was called without retries
C40_Witness ==
    \E p, q \in Procs :
        /\ inv[p].pc = "returned" /\ inv[p].retry_count > 0
        /\ Len(inv[p].requests) = inv[p].retry_count + 1
        /\ inv[q].pc = "raised" /\ inv[q].retry_count > 0
        /\ inv[q].result = <<"timeout">>

====
